---- MODULE Spec2Model ----
(***************************************************************************)
(* Memory scanner: the session controller (context), the scan engine       *)
(* (scanner), the JSON-RPC handlers (jsonrpc) and the Linux backend        *)
(* (linux) of nafiz1001/rust_project, as one state machine.                *)
(*                                                                         *)
(* A handler that panics is recorded as a response with status "panic";    *)
(* a panic raised while the session's MutexGuard is alive poisons the      *)
(* Mutex (std::sync::Mutex), and every later lock().unwrap() panics.       *)
(*                                                                         *)
(* Spec serves one request at a time.  EngineSpec drives the scan engine   *)
(* through its own API, ConcSpec runs the handlers on concurrent threads,  *)
(* IterSpec drives the region enumerator and BackendSpec the reads and     *)
(* writes of the Linux backend.  HelperSpec drives the single-value        *)
(* helpers of that backend, ShortSpec the scan engine over regions of any  *)
(* length, CoreSpec and CoreIterSpec the older backend linux_core, and     *)
(* WinSpec the handles and the module iterator of windows_core.            *)
(***************************************************************************)
EXTENDS Integers, Sequences, FiniteSets, TLC

(* ---------------------------------------------------------------------- *)
(* Bounds of the model                                                     *)
(* ---------------------------------------------------------------------- *)
PageSize == 5
NumPages == 3
\* Integer widths are scaled: a byte has ByteMod values (256 in the program),
\* so that a 64-bit literal still fits a model integer.  Every width keeps
\* its number of bytes.
ByteMod == 4

(* ---------------------------------------------------------------------- *)
(* Program constants                                                       *)
(* ---------------------------------------------------------------------- *)
SizeOfDword == 4
SizeOfQword == 8

MemSize == NumPages * PageSize
Addr == 0 .. (MemSize - 1)
Pages == 0 .. (NumPages - 1)
PageOf(a) == a \div PageSize
Byte == 0 .. (ByteMod - 1)

DwordMod == ByteMod ^ SizeOfDword
QwordMod == ByteMod ^ SizeOfQword
U32Max == DwordMod - 1
I32Max == (DwordMod \div 2) - 1
I32Min == - (DwordMod \div 2)
I64Max == (QwordMod \div 2) - 1
U64Max == QwordMod - 1

(* ---------------------------------------------------------------------- *)
(* The processes of the machine                                            *)
(* ---------------------------------------------------------------------- *)
PidSet == {1, 2, 3}
LivePids == {1, 2}
Paths == {"target", "missing"}
TargetName == "target"

\* std::process::Command::spawn: the pid of the child, or 0 when the path
\* cannot be spawned
Spawn(path) == IF path = "target" THEN 2 ELSE 0

(* ---------------------------------------------------------------------- *)
(* serde_json::Number literals                                             *)
(* ---------------------------------------------------------------------- *)
IntLit(v) == [k |-> "int", v |-> v]
FloatLit == [k |-> "float", v |-> 1]
ScanLits == { IntLit(0), IntLit(-1), IntLit(U32Max + 1), IntLit(I32Min - 1),
              IntLit(I64Max + 1), FloatLit }
ScanValueType == {"byte", "word", "dword", "qword", "float", "double"}

None == [some |-> FALSE, v |-> 0]
Some(x) == [some |-> TRUE, v |-> x]

is_i64(n) == n.k = "int" /\ n.v <= I64Max
as_i64(n) == IF is_i64(n) THEN Some(n.v) ELSE None
as_u64(n) == IF n.k = "int" /\ n.v >= 0 THEN Some(n.v) ELSE None
i32_try_from(x) == IF x >= I32Min /\ x <= I32Max THEN Some(x) ELSE None
u32_try_from(x) == IF x >= 0 /\ x <= U32Max THEN Some(x) ELSE None

(* ---------------------------------------------------------------------- *)
(* State                                                                   *)
(* ---------------------------------------------------------------------- *)
VARIABLES
    mem,         \* mem[pid][a]: the byte at address a of live process pid
    noaccess,    \* noaccess[pid]: the pages of pid that refuse reads and writes
    scanner,     \* ScannerContext.scanner: Option<Scanner<P>>
    value_type,  \* ScannerContext.value_type: Option<ScanValueType>
    signed,      \* ScannerContext.signed: Option<bool>
    child,       \* ScannerContext.child: Option<Child>
    poisoned,    \* the Mutex around the ScannerContext is poisoned
    resp,        \* the last step taken and its outcome
    lock,        \* the thread that holds the Mutex, 0 when it is free
    threads,     \* threads[t]: the request a handler thread serves, and where it is
    iter,        \* a MemoryRegionIterator a caller of the backend drives by itself
    win          \* the Windows backend: the handles of the OS and the values owning them

vars == <<mem, noaccess, scanner, value_type, signed, child, poisoned, resp, lock, threads,
          iter, win>>
env == <<mem, noaccess>>
session == <<scanner, value_type, signed, child>>
\* the handler threads; one request at a time is served without them
conc == <<lock, threads>>

NoScanner == [some |-> FALSE, process |-> 0, addresses |-> <<>>, value_size |-> 0]
NoneType == "None"
NoneBool == "None"
NoChild == [some |-> FALSE, pid |-> 0]

Threads == {1, 2}
Ctx == [scanner |-> scanner, value_type |-> value_type, signed |-> signed, child |-> child]
NoReq == [op |-> "", arg |-> [none |-> TRUE]]
NoSnap == [scanner |-> NoScanner, value_type |-> NoneType, signed |-> NoneBool,
           child |-> NoChild]
Idle == [pc |-> "idle", req |-> NoReq, snap |-> NoSnap]
\* no handle was ever opened and no value of the Windows backend exists
NoWin == [open |-> {}, opened |-> 0, values |-> {}, faults |-> {}]
\* no iterator has been built
NoIter == [state |-> "none", pid |-> 0, lines |-> <<>>, offset |-> 0, limit |-> 0,
           build |-> "", i |-> 1, out |-> <<>>]

(* ---------------------------------------------------------------------- *)
(* Linux backend: process_vm_readv / process_vm_writev                     *)
(* ---------------------------------------------------------------------- *)
Zeros(n) == [i \in 1 .. n |-> 0]
MinOf(S) == CHOOSE x \in S : \A y \in S : x <= y

Accessible(pid, a) ==
    /\ pid \in LivePids
    /\ a \in Addr
    /\ PageOf(a) \notin noaccess[pid]

\* the number of bytes the kernel transfers: the pages before the first one
\* that faults
Transferred(pid, start, len) ==
    LET bad == {i \in 0 .. (len - 1) : ~ Accessible(pid, start + i)}
    IN  IF bad = {} THEN len ELSE MinOf(bad)

\* Ok(n) with the first n bytes of the buffer filled, or Err
process_vm_readv(pid, start, buf) ==
    LET n == Transferred(pid, start, Len(buf))
    IN  IF pid \notin LivePids \/ (Len(buf) > 0 /\ n = 0)
        THEN [ok |-> FALSE, n |-> 0, buf |-> buf]
        ELSE [ok |-> TRUE, n |-> n,
              buf |-> [i \in 1 .. Len(buf) |->
                          IF i <= n THEN mem[pid][start + i - 1] ELSE buf[i]]]

\* Process::read_memory_slice: Ok(_) => Ok(()), Err(errno) => Err
read_memory_slice(pid, start, buf) ==
    LET r == process_vm_readv(pid, start, buf)
    IN  [ok |-> r.ok, buf |-> r.buf]

\* Ok(n) with the first n bytes stored in the target, or Err
process_vm_writev(pid, start, buf) ==
    LET n == Transferred(pid, start, Len(buf))
    IN  IF pid \notin LivePids \/ (Len(buf) > 0 /\ n = 0)
        THEN [ok |-> FALSE, n |-> 0, mem |-> mem]
        ELSE [ok |-> TRUE, n |-> n,
              mem |-> [mem EXCEPT ![pid] =
                          [a \in Addr |->
                              IF a >= start /\ a < start + n
                              THEN buf[a - start + 1] ELSE mem[pid][a]]]]

\* Process::write_memory_slice
write_memory_slice(pid, start, buf) ==
    LET r == process_vm_writev(pid, start, buf)
    IN  [ok |-> r.ok, mem |-> r.mem]

\* Process::name: the comm of the process; unwrap panics when it is gone
name(pid) == IF pid \in LivePids THEN Some(TargetName) ELSE None

(* ---------------------------------------------------------------------- *)
(* Little-endian reinterpretation of sizeof(T) bytes                       *)
(* ---------------------------------------------------------------------- *)
RECURSIVE FromLeBytes(_)
FromLeBytes(bs) ==
    IF bs = <<>> THEN 0 ELSE bs[1] + ByteMod * FromLeBytes(Tail(bs))

AsU32(bs) == FromLeBytes(bs)
AsI32(bs) == IF FromLeBytes(bs) > I32Max
             THEN FromLeBytes(bs) - DwordMod ELSE FromLeBytes(bs)
AsI64(bs) == IF FromLeBytes(bs) > I64Max
             THEN FromLeBytes(bs) - QwordMod ELSE FromLeBytes(bs)
\* *(bytes.as_ptr() as *const T)
AsT(T, bs) == IF T = "i64" THEN AsI64(bs)
              ELSE IF T = "u32" THEN AsU32(bs) ELSE AsI32(bs)

RECURSIVE ToLeBytes(_, _)
ToLeBytes(u, n) ==
    IF n = 0 THEN <<>> ELSE <<u % ByteMod>> \o ToLeBytes(u \div ByteMod, n - 1)

I32Bytes(v) == ToLeBytes(IF v < 0 THEN v + DwordMod ELSE v, SizeOfDword)

(* ---------------------------------------------------------------------- *)
(* Linux backend: /proc/<pid>/maps and the region enumerator               *)
(* ---------------------------------------------------------------------- *)
PageInfo(pg) == IF pg < NumPages - 1 THEN "[heap]" ELSE "[stack]"
PagePerm(pid, pg) == IF pg \in noaccess[pid] THEN "--" ELSE "rw"

\* the first page after pg whose mapping differs from pg's
RunEnd(pid, pg) ==
    LET diff == {q \in Pages : q > pg /\ (PagePerm(pid, q) # PagePerm(pid, pg)
                                          \/ PageInfo(q) # PageInfo(pg))}
    IN  IF diff = {} THEN NumPages ELSE MinOf(diff)

\* the lines of /proc/<pid>/maps: one per run of pages mapped alike
RECURSIVE MapsFrom(_, _)
MapsFrom(pid, pg) ==
    IF pg >= NumPages THEN <<>>
    ELSE <<[start |-> pg * PageSize, end |-> RunEnd(pid, pg) * PageSize,
            perm |-> PagePerm(pid, pg), info |-> PageInfo(pg)]>>
         \o MapsFrom(pid, RunEnd(pid, pg))

Maps(pid) == MapsFrom(pid, 0)

\* str::contains on the pathname column
Contains(info, pat) ==
    \/ pat = "stack" /\ info \in {"[stack]", "/stack/heap/target"}
    \/ pat = "heap" /\ info \in {"[heap]", "/stack/heap/target"}
    \/ pat = TargetName /\ info \in {"/usr/bin/target", "/stack/heap/target"}

UsizeMod == QwordMod
UsizeMax == UsizeMod - 1
WrappingSub(a, b) == (a - b + UsizeMod) % UsizeMod

Permission(perm) ==
    IF perm = "r-" THEN "READONLY" ELSE IF perm = "rw" THEN "READWRITE" ELSE "NONE"

NoRegion == [start |-> 0, end |-> 0, permission |-> "NONE", kind |-> ""]
\* the two ways `range.start - self.offset` is compiled when it underflows:
\* with overflow checks it panics, without them it wraps
Builds == {"debug", "release"}

\* one call of MemoryRegionIterator::next with the cursor before line i:
\* Some(region), None or a panic, and the cursor afterwards
RECURSIVE MemoryRegionIterator_next(_, _, _, _, _, _)
MemoryRegionIterator_next(pid, lines, i, offset, limit, build) ==
    IF i > Len(lines) THEN [tag |-> "none", i |-> i, region |-> NoRegion]
    ELSE LET line == lines[i]
             kind == IF Contains(line.info, "stack") THEN "STACK"
                     ELSE IF Contains(line.info, "heap") THEN "HEAP"
                     ELSE IF ~ name(pid).some THEN "panic"
                     ELSE IF Contains(line.info, name(pid).v) THEN "UNKNOWN"
                     ELSE "continue"
         IN  IF line.start >= offset
             THEN IF kind = "continue"
                  THEN MemoryRegionIterator_next(pid, lines, i + 1, offset, limit, build)
                  ELSE IF kind = "panic"
                  THEN [tag |-> "panic", i |-> i + 1, region |-> NoRegion]
                  ELSE [tag |-> "some", i |-> i + 1,
                        region |-> [start |-> line.start, end |-> line.end,
                                    permission |-> Permission(line.perm), kind |-> kind]]
             ELSE IF build = "debug"
                  THEN [tag |-> "panic", i |-> i + 1, region |-> NoRegion]
                  ELSE IF WrappingSub(line.start, offset) >= limit
                  THEN [tag |-> "none", i |-> i + 1, region |-> NoRegion]
                  ELSE MemoryRegionIterator_next(pid, lines, i + 1, offset, limit, build)

\* `for region in M::new(process, offset, limit)`: the regions the loop sees
\* from line i on
RECURSIVE MemoryRegionIterator(_, _, _, _, _, _)
MemoryRegionIterator(pid, lines, i, offset, limit, build) ==
    LET n == MemoryRegionIterator_next(pid, lines, i, offset, limit, build)
    IN  IF n.tag = "some"
        THEN <<n.region>> \o MemoryRegionIterator(pid, lines, n.i, offset, limit, build)
        ELSE <<>>

\* the regions new_scan walks.  With offset 0 no line lies below the offset,
\* so the subtraction is never evaluated and the builds agree; the lines of
\* Maps are all heap or stack, so name() is never called
AllRegions(pid) == MemoryRegionIterator(pid, Maps(pid), 1, 0, UsizeMax, "debug")

(* ---------------------------------------------------------------------- *)
(* Scan engine (scanner)                                                   *)
(* ---------------------------------------------------------------------- *)
\* size_of::<T>() for T one of "u8", "u16", "i32", "u32", "i64"
SizeOf(T) == IF T = "i64" THEN SizeOfQword
             ELSE IF T = "u8" THEN 1
             ELSE IF T = "u16" THEN 2
             ELSE SizeOfDword

\* the closures of ScannerContext::new_scan / next_scan applied to the bytes
\* of one value: "true", "false", or "panic" when an unwrap inside fails
Predicate(T, value, bytes) ==
    IF T = "i32"
    THEN LET c == i32_try_from(as_i64(value).v)
         IN  IF ~ c.some THEN "panic"
             ELSE IF AsI32(bytes) = c.v THEN "true" ELSE "false"
    ELSE LET u == as_u64(value)
             c == u32_try_from(u.v)
         IN  IF ~ u.some \/ ~ c.some THEN "panic"
             ELSE IF AsU32(bytes) = c.v THEN "true" ELSE "false"

\* the upper end of `0..region_buffer.len() - size_of::<T>()`
OffsetEnd(len, size) == len - size

\* a new_scan that scans the zero-filled buffer of a region whose bulk read
\* failed instead of skipping the region
RegionPoints_unskipped(pid, region, size) ==
    LET len == region.end - region.start
        rd  == read_memory_slice(pid, region.start, Zeros(len))
    IN  IF OffsetEnd(len, size) < 0
        THEN <<[addr |-> region.start, bytes |-> <<>>, trap |-> TRUE]>>
        ELSE [k \in 1 .. OffsetEnd(len, size) |->
                 [addr |-> region.start + (k - 1),
                  bytes |-> SubSeq(rd.buf, k, k + size - 1), trap |-> FALSE]]

\* the (address, bytes) pairs new_scan hands to the predicate for one region;
\* a region shorter than sizeof(T) underflows the offset bound, which traps
RegionPoints(pid, region, size) ==
    LET len == region.end - region.start
        rd  == read_memory_slice(pid, region.start, Zeros(len))
    IN  IF ~ rd.ok THEN <<>>
        ELSE IF OffsetEnd(len, size) < 0
        THEN <<[addr |-> region.start, bytes |-> <<>>, trap |-> TRUE]>>
        ELSE [k \in 1 .. OffsetEnd(len, size) |->
                 [addr |-> region.start + (k - 1),
                  bytes |-> SubSeq(rd.buf, k, k + size - 1), trap |-> FALSE]]

\* a new_scan that walks the regions from the last to the first
RECURSIVE ScanPoints_reversed(_, _, _, _)
ScanPoints_reversed(pid, regions, i, size) ==
    IF i > Len(regions) THEN <<>>
    ELSE ScanPoints_reversed(pid, regions, i + 1, size)
         \o RegionPoints(pid, regions[i], size)

\* the (address, bytes) pairs of all the regions, in the order new_scan
\* walks them
RECURSIVE ScanPoints(_, _, _, _)
ScanPoints(pid, regions, i, size) ==
    IF i > Len(regions) THEN <<>>
    ELSE RegionPoints(pid, regions[i], size) \o ScanPoints(pid, regions, i + 1, size)

\* runs the predicate over the points in order, pushing the matches; stops
\* at the first panic
RECURSIVE PushMatches(_, _, _, _, _)
PushMatches(points, i, T, value, acc) ==
    IF i > Len(points) THEN [addresses |-> acc, panicked |-> FALSE, why |-> ""]
    ELSE LET p == IF points[i].trap THEN "panic"
                  ELSE Predicate(T, value, points[i].bytes)
         IN  IF p = "panic"
             THEN [addresses |-> acc, panicked |-> TRUE,
                   why |-> IF points[i].trap THEN "overflow" ELSE "unwrap"]
             ELSE PushMatches(points, i + 1, T, value,
                              IF p = "true" THEN Append(acc, points[i].addr) ELSE acc)

Scanner_new(pid) ==
    [some |-> TRUE, process |-> pid, addresses |-> <<>>, value_size |-> 0]

\* a new_scan that does not clear the candidate set before it pushes
Scanner_new_scan_extending(sc, T, value) ==
    LET regions == AllRegions(sc.process)
        r == PushMatches(ScanPoints(sc.process, regions, 1, SizeOf(T)), 1, T, value,
                         sc.addresses)
    IN  [scanner |-> [sc EXCEPT !.addresses = r.addresses, !.value_size = SizeOf(T)],
         panicked |-> r.panicked, why |-> r.why]

\* Scanner::new_scan over the regions its enumerator M yields: the scanner
\* afterwards, and whether the call panicked
Scanner_new_scan_over(sc, regions, T, value) ==
    LET r == PushMatches(ScanPoints(sc.process, regions, 1, SizeOf(T)), 1, T, value, <<>>)
    IN  [scanner |-> [sc EXCEPT !.addresses = r.addresses, !.value_size = SizeOf(T)],
         panicked |-> r.panicked, why |-> r.why]

\* Scanner::new_scan with the enumerator of the Linux backend
Scanner_new_scan(sc, T, value) ==
    Scanner_new_scan_over(sc, AllRegions(sc.process), T, value)

\* a next_scan that ignores the outcome of the read and hands the buffer to
\* the predicate as it is
RECURSIVE AddressPoints_unchecked(_, _, _, _)
AddressPoints_unchecked(pid, addresses, i, size) ==
    IF i > Len(addresses) THEN <<>>
    ELSE LET rd == read_memory_slice(pid, addresses[i], Zeros(size))
         IN  <<[addr |-> addresses[i], bytes |-> rd.buf, trap |-> FALSE]>>
             \o AddressPoints_unchecked(pid, addresses, i + 1, size)

\* the (address, bytes) pairs next_scan hands to the predicate: the addresses
\* whose read succeeds
RECURSIVE AddressPoints(_, _, _, _)
AddressPoints(pid, addresses, i, size) ==
    IF i > Len(addresses) THEN <<>>
    ELSE LET rd == read_memory_slice(pid, addresses[i], Zeros(size))
         IN  (IF rd.ok THEN <<[addr |-> addresses[i], bytes |-> rd.buf, trap |-> FALSE]>>
              ELSE <<>>)
             \o AddressPoints(pid, addresses, i + 1, size)

NextScanAssert(size, value_size) == size <= value_size

\* a next_scan that walks the regions again instead of the candidate set
Scanner_rescan(sc, T, value) ==
    IF ~ NextScanAssert(SizeOf(T), sc.value_size)
    THEN [scanner |-> sc, panicked |-> TRUE, why |-> "assert"]
    ELSE Scanner_new_scan(sc, T, value)

\* Scanner::next_scan
Scanner_next_scan(sc, T, value) ==
    IF ~ NextScanAssert(SizeOf(T), sc.value_size)
    THEN [scanner |-> sc, panicked |-> TRUE, why |-> "assert"]
    ELSE LET r == PushMatches(AddressPoints(sc.process, sc.addresses, 1, SizeOf(T)),
                              1, T, value, <<>>)
         IN  IF r.panicked THEN [scanner |-> sc, panicked |-> TRUE, why |-> r.why]
             ELSE [scanner |-> [sc EXCEPT !.addresses = r.addresses],
                   panicked |-> FALSE, why |-> ""]

\* the assertion of ScanResult::new
ScanResultAssert(size, value_size) == size > value_size

\* ScanResult::next over the addresses from i on; `bytes` is the one buffer
\* the iterator reuses, so a short read leaves the previous value's tail
RECURSIVE ScanResult_collect(_, _, _, _, _)
ScanResult_collect(pid, addresses, i, bytes, T) ==
    IF i > Len(addresses) THEN [entries |-> <<>>, panicked |-> FALSE]
    ELSE LET rd == read_memory_slice(pid, addresses[i], bytes)
         IN  IF ~ rd.ok THEN [entries |-> <<>>, panicked |-> TRUE]
             ELSE LET rest == ScanResult_collect(pid, addresses, i + 1, rd.buf, T)
                  IN  [entries |-> <<[address |-> addresses[i], value |-> AsT(T, rd.buf)]>>
                                   \o rest.entries,
                       panicked |-> rest.panicked]

\* the window of the candidate set that scan_result(offset, limit) serves
Paginate(addresses, offset, limit) ==
    SubSeq(addresses, offset + 1,
           IF offset + limit < Len(addresses) THEN offset + limit ELSE Len(addresses))

\* Scanner::scan_result::<T>(offset, limit), collected
Scanner_scan_result(sc, T, offset, limit) ==
    IF ~ ScanResultAssert(SizeOf(T), sc.value_size)
    THEN [entries |-> <<>>, panicked |-> TRUE, why |-> "assert"]
    ELSE LET r == ScanResult_collect(sc.process, Paginate(sc.addresses, offset, limit),
                                     1, Zeros(SizeOf(T)), T)
         IN  IF r.panicked THEN [entries |-> <<>>, panicked |-> TRUE, why |-> "unwrap"]
             ELSE [entries |-> r.entries, panicked |-> FALSE, why |-> ""]

(* ---------------------------------------------------------------------- *)
(* Session controller (context) behind the JSON-RPC handlers (jsonrpc)     *)
(* ---------------------------------------------------------------------- *)
WriteVals == {-1, 0}
\* the processes whose memory changes while the session runs
WritePids == {1}
\* the addresses written: the first and the last offset of the heap region
WriteAddrs == {0, (NumPages - 1) * PageSize - SizeOfDword}
\* the pages that may become inaccessible: the first two of the heap
ProtectPages == {0, 1}
\* the image a process starts with
InitImage(pid) == IF pid = 1 THEN [a \in Addr |-> 0]
                  ELSE [a \in Addr |-> IF a < SizeOfDword THEN ByteMod - 1 ELSE 0]
Offsets == 0 .. 1
Limits == 0 .. 2

Ok(op, arg, ret) == [op |-> op, status |-> "ok", why |-> "", arg |-> arg, ret |-> ret]
NoArg == [none |-> TRUE]
Panic(op, arg, why) == [op |-> op, status |-> "panic", why |-> why, arg |-> arg, ret |-> <<>>]

Init ==
    /\ mem = [p \in LivePids |-> InitImage(p)]
    /\ noaccess = [p \in LivePids |-> {}]
    /\ scanner = NoScanner
    /\ value_type = NoneType
    /\ signed = NoneBool
    /\ child = NoChild
    /\ poisoned = FALSE
    /\ resp = Ok("init", NoArg, <<>>)
    /\ lock = 0
    /\ threads = [t \in Threads |-> Idle]
    /\ iter = NoIter
    /\ win = NoWin

\* ScannerContext::select_process, from the point where the lock is held
select_process(op, arg, pid) ==
    /\ scanner' = Scanner_new(pid)
    /\ IF name(pid).some
       THEN /\ resp' = Ok(op, arg, [pid |-> pid, name |-> name(pid).v])
            /\ UNCHANGED poisoned
       ELSE /\ resp' = Panic(op, arg, "name")
            /\ poisoned' = TRUE

\* handler "select_process" with params {pid}
SelectProcessByPID(pid) ==
    /\ UNCHANGED <<env, conc, iter, win>>
    /\ IF poisoned
       THEN /\ resp' = Panic("select_process", NoArg, "PoisonError")
            /\ UNCHANGED <<session, poisoned>>
       ELSE /\ select_process("select_process", [pid |-> pid], pid)
            /\ UNCHANGED <<value_type, signed, child>>

\* handler "select_process" with params {path}: ScannerContext::open_process
SelectProcessByPath(path) ==
    /\ UNCHANGED <<env, conc, iter, win>>
    /\ IF poisoned
       THEN /\ resp' = Panic("select_process", NoArg, "PoisonError")
            /\ UNCHANGED <<session, poisoned>>
       ELSE IF Spawn(path) = 0
       THEN /\ resp' = Panic("select_process", [path |-> path], "spawn")
            /\ poisoned' = TRUE
            /\ UNCHANGED session
       ELSE /\ child' = [some |-> TRUE, pid |-> Spawn(path)]
            /\ select_process("select_process", [path |-> path], Spawn(path))
            /\ UNCHANGED <<value_type, signed>>

\* ScannerContext::new_scan / next_scan after the scanner is unwrapped, each
\* calling the engine's operation of its own name
ScanDword(op, arg) ==
    LET T == IF is_i64(arg.value) THEN "i32" ELSE "u32"
        r == IF op = "new_scan" THEN Scanner_new_scan(scanner, T, arg.value)
             ELSE Scanner_next_scan(scanner, T, arg.value)
        before == Len(scanner.addresses)
    IN  /\ scanner' = r.scanner
        /\ IF r.panicked
           THEN /\ resp' = Panic(op, arg, r.why)
                /\ poisoned' = TRUE
                /\ UNCHANGED <<value_type, signed>>
           ELSE /\ signed' = (IF T = "i32" THEN "true" ELSE "false")
                /\ value_type' = arg.type
                /\ resp' = Ok(op, arg, [count |-> Len(r.scanner.addresses), before |-> before])
                /\ UNCHANGED poisoned

ScanHandler(op, arg) ==
    /\ UNCHANGED <<env, child, conc, iter, win>>
    /\ IF poisoned
       THEN /\ resp' = Panic(op, NoArg, "PoisonError")
            /\ UNCHANGED <<scanner, value_type, signed, poisoned>>
       ELSE IF ~ scanner.some
       THEN /\ resp' = Panic(op, arg, "unwrap")
            /\ poisoned' = TRUE
            /\ UNCHANGED <<scanner, value_type, signed>>
       ELSE IF arg.type # "dword"
       THEN /\ resp' = Panic(op, arg, "not supported")
            /\ poisoned' = TRUE
            /\ UNCHANGED <<scanner, value_type, signed>>
       ELSE ScanDword(op, arg)

\* handler "new_scan"
NewScan(type, value) ==
    ScanHandler("new_scan", [type |-> type, value |-> value])

\* handler "next_scan"
NextScan(type, value) ==
    ScanHandler("next_scan", [type |-> type, value |-> value])

\* handler "scan_result": ScannerContext::scan_result
ScanResult(offset, limit) ==
    LET arg == [offset |-> offset, limit |-> limit]
        r   == Scanner_scan_result(scanner, "i32", offset, limit)
    IN  /\ UNCHANGED <<env, session, conc, iter, win>>
        /\ IF poisoned
           THEN /\ resp' = Panic("scan_result", NoArg, "PoisonError")
                /\ UNCHANGED poisoned
           ELSE IF value_type = NoneType \/ signed = NoneBool
           THEN /\ resp' = Panic("scan_result", arg, "unwrap")
                /\ poisoned' = TRUE
           ELSE IF ~ (value_type = "dword" /\ signed = "true")
           THEN /\ resp' = Panic("scan_result", arg, "not supported")
                /\ poisoned' = TRUE
           ELSE IF ~ scanner.some
           THEN /\ resp' = Panic("scan_result", arg, "unwrap")
                /\ poisoned' = TRUE
           ELSE IF r.panicked
           THEN /\ resp' = Panic("scan_result", arg, r.why)
                /\ poisoned' = TRUE
           ELSE /\ resp' = Ok("scan_result", arg, r.entries)
                /\ UNCHANGED poisoned

\* Process::write_memory_slice of one dword into a live process, while the
\* session can still serve requests
Write(pid, a, v) ==
    LET r == write_memory_slice(pid, a, I32Bytes(v))
    IN  /\ ~ poisoned
        /\ mem' = r.mem
        /\ resp' = [op |-> "write", status |-> IF r.ok THEN "ok" ELSE "err", why |-> "",
                    arg |-> [pid |-> pid, address |-> a, value |-> v], ret |-> <<>>]
        /\ UNCHANGED <<noaccess, session, poisoned, conc, iter, win>>

\* the target makes one of its pages inaccessible, while the session can
\* still serve requests
Protect(pid, pg) ==
    /\ ~ poisoned
    /\ pg \notin noaccess[pid]
    /\ noaccess' = [noaccess EXCEPT ![pid] = @ \cup {pg}]
    /\ resp' = [op |-> "protect", status |-> "ok", why |-> "",
                arg |-> [pid |-> pid, page |-> pg], ret |-> <<>>]
    /\ UNCHANGED <<mem, session, poisoned, conc, iter, win>>

Next ==
    \/ \E pid \in PidSet : SelectProcessByPID(pid)
    \/ \E path \in Paths : SelectProcessByPath(path)
    \/ \E value \in ScanLits : NewScan("dword", value)
    \/ \E type \in ScanValueType : NewScan(type, IntLit(0))
    \/ \E value \in ScanLits : NextScan("dword", value)
    \/ \E type \in ScanValueType : NextScan(type, IntLit(0))
    \/ \E offset \in Offsets, limit \in Limits : ScanResult(offset, limit)
    \/ \E pid \in WritePids, a \in WriteAddrs, v \in WriteVals : Write(pid, a, v)
    \/ \E pid \in WritePids, pg \in ProtectPages : Protect(pid, pg)

Spec == Init /\ [][Next]_vars

(* ---------------------------------------------------------------------- *)
(* The scan engine driven through its own API, without the controller: a   *)
(* panic unwinds the calling thread, which makes no further call           *)
(* ---------------------------------------------------------------------- *)
EngineLits == {IntLit(0), IntLit(-1)}
\* the T of Scanner::scan_result::<T>
ResultTypes == {"i32", "i64"}

EngineInit ==
    /\ mem = [p \in LivePids |-> InitImage(p)]
    /\ noaccess = [p \in LivePids |-> {}]
    /\ scanner \in {Scanner_new(p) : p \in LivePids}
    /\ value_type = NoneType
    /\ signed = NoneBool
    /\ child = NoChild
    /\ poisoned = FALSE
    /\ resp = Ok("init", NoArg, <<>>)
    /\ lock = 0
    /\ threads = [t \in Threads |-> Idle]
    /\ iter = NoIter
    /\ win = NoWin

\* Scanner::new_scan::<i32> / Scanner::next_scan::<i32> with |v| *v == value
EngineScan(op, value) ==
    LET r == IF op = "new_scan" THEN Scanner_new_scan(scanner, "i32", value)
             ELSE Scanner_next_scan(scanner, "i32", value)
        arg == [T |-> "i32", value |-> value]
    IN  /\ resp.status # "panic"
        /\ scanner' = r.scanner
        /\ resp' = IF r.panicked THEN Panic(op, arg, r.why)
                   ELSE Ok(op, arg, [count |-> Len(r.scanner.addresses),
                                     before |-> Len(scanner.addresses)])
        /\ UNCHANGED <<env, value_type, signed, child, poisoned, conc, iter, win>>

\* Scanner::scan_result::<T>, iterated to its end
EngineScanResult(T) ==
    LET r == Scanner_scan_result(scanner, T, 0, Len(scanner.addresses))
        arg == [T |-> T]
    IN  /\ resp.status # "panic"
        /\ resp' = IF r.panicked THEN Panic("scan_result", arg, r.why)
                   ELSE Ok("scan_result", arg, r.entries)
        /\ UNCHANGED <<env, session, poisoned, conc, iter, win>>

EngineWrite(pid, a, v) == resp.status # "panic" /\ Write(pid, a, v)
EngineProtect(pid, pg) == resp.status # "panic" /\ Protect(pid, pg)

EngineNext ==
    \/ \E value \in EngineLits : EngineScan("new_scan", value)
    \/ \E value \in EngineLits : EngineScan("next_scan", value)
    \/ \E T \in ResultTypes : EngineScanResult(T)
    \/ \E pid \in WritePids, a \in WriteAddrs, v \in WriteVals : EngineWrite(pid, a, v)
    \/ \E pid \in WritePids, pg \in ProtectPages : EngineProtect(pid, pg)

EngineSpec == EngineInit /\ [][EngineNext]_vars

(* ---------------------------------------------------------------------- *)
(* The handlers run by concurrent threads (register_blocking_method): each *)
(* parses its params, then evaluates context.lock().unwrap().method(..);   *)
(* the MutexGuard is a temporary that lives to the end of that call.       *)
(* The controller's method is taken one access to the session at a time.   *)
(* ---------------------------------------------------------------------- *)
Requests ==
    { [op |-> "select_process", arg |-> [pid |-> 1]],
      [op |-> "select_process", arg |-> [pid |-> 2]],
      [op |-> "new_scan", arg |-> [type |-> "dword", value |-> IntLit(0)]],
      [op |-> "next_scan", arg |-> [type |-> "dword", value |-> IntLit(-1)]],
      [op |-> "scan_result", arg |-> [offset |-> 0, limit |-> 1]] }

\* where the controller's method starts
Entry(req) ==
    IF req.op = "select_process" THEN "select_scanner"
    ELSE IF req.op = "scan_result" THEN "result_type"
    ELSE "scan_engine"

Goto(ctx, pc) == [ctx |-> ctx, pc |-> pc, resp |-> Ok("", NoArg, <<>>)]
Return(ctx, r) == [ctx |-> ctx, pc |-> "return", resp |-> r]

\* one access of the controller's method to the session: the session
\* afterwards and where the method continues; "return" ends it with its
\* response, a panic included
Step(pc, req, ctx) ==
    LET op == req.op
        arg == req.arg
    IN  CASE pc = "select_scanner" ->
                 Goto([ctx EXCEPT !.scanner = Scanner_new(arg.pid)], "select_name")
          [] pc = "select_name" ->
                 Return(ctx, IF name(arg.pid).some
                             THEN Ok(op, arg, [pid |-> arg.pid, name |-> name(arg.pid).v])
                             ELSE Panic(op, arg, "name"))
          [] pc = "scan_engine" ->
                 IF ~ ctx.scanner.some THEN Return(ctx, Panic(op, arg, "unwrap"))
                 ELSE IF arg.type # "dword" THEN Return(ctx, Panic(op, arg, "not supported"))
                 ELSE LET T == IF is_i64(arg.value) THEN "i32" ELSE "u32"
                          r == IF op = "new_scan"
                               THEN Scanner_new_scan(ctx.scanner, T, arg.value)
                               ELSE Scanner_next_scan(ctx.scanner, T, arg.value)
                      IN  IF r.panicked
                          THEN Return([ctx EXCEPT !.scanner = r.scanner],
                                      Panic(op, arg, r.why))
                          ELSE Goto([ctx EXCEPT !.scanner = r.scanner], "scan_signed")
          [] pc = "scan_signed" ->
                 Goto([ctx EXCEPT !.signed = IF is_i64(arg.value) THEN "true" ELSE "false"],
                      "scan_type")
          [] pc = "scan_type" ->
                 Goto([ctx EXCEPT !.value_type = arg.type], "scan_count")
          [] pc = "scan_count" ->
                 Return(ctx, Ok(op, arg, [count |-> Len(ctx.scanner.addresses)]))
          [] pc = "result_type" ->
                 IF ctx.value_type = NoneType \/ ctx.signed = NoneBool
                 THEN Return(ctx, Panic(op, arg, "unwrap"))
                 ELSE IF ~ (ctx.value_type = "dword" /\ ctx.signed = "true")
                 THEN Return(ctx, Panic(op, arg, "not supported"))
                 ELSE Goto(ctx, "result_collect")
          [] OTHER ->
                 IF ~ ctx.scanner.some THEN Return(ctx, Panic(op, arg, "unwrap"))
                 ELSE LET r == Scanner_scan_result(ctx.scanner, "i32",
                                                   arg.offset, arg.limit)
                      IN  Return(ctx, IF r.panicked THEN Panic(op, arg, r.why)
                                      ELSE Ok(op, arg, r.entries))

\* the controller's method run from pc to its end with nothing in between
RECURSIVE Run(_, _, _)
Run(pc, req, ctx) ==
    LET s == Step(pc, req, ctx)
    IN  IF s.pc = "return" THEN s ELSE Run(s.pc, req, s.ctx)

\* the request served alone on the session ctx
Serial(req, ctx) == Run(Entry(req), req, ctx)

ConcInit ==
    /\ mem = [p \in LivePids |-> InitImage(p)]
    /\ noaccess = [p \in LivePids |-> {}]
    /\ scanner = NoScanner
    /\ value_type = NoneType
    /\ signed = NoneBool
    /\ child = NoChild
    /\ poisoned = FALSE
    /\ resp = Ok("init", NoArg, <<>>)
    /\ lock = 0
    /\ threads = [t \in Threads |-> Idle]
    /\ iter = NoIter
    /\ win = NoWin

\* a request arrives at thread t and its params are parsed
Receive(t, req) ==
    /\ threads[t].pc = "idle"
    /\ threads' = [threads EXCEPT ![t] = [pc |-> "parsed", req |-> req, snap |-> NoSnap]]
    /\ UNCHANGED <<env, session, poisoned, resp, lock, iter, win>>

\* Mutex::lock blocks the thread until no thread holds the Mutex
MutexLock_unguarded(t) == TRUE
MutexLock(t) == lock = 0

\* context.lock().unwrap(): a poisoned Mutex hands out an Err, the unwrap
\* panics and the guard inside the Err is dropped at once
Lock(t) ==
    /\ threads[t].pc = "parsed"
    /\ MutexLock(t)
    /\ UNCHANGED <<env, session, poisoned, iter, win>>
    /\ IF poisoned
       THEN /\ resp' = Panic(threads[t].req.op, NoArg, "PoisonError")
            /\ threads' = [threads EXCEPT ![t] = Idle]
            /\ UNCHANGED lock
       ELSE /\ lock' = t
            /\ threads' = [threads EXCEPT ![t] = [pc |-> Entry(@.req), req |-> @.req,
                                                  snap |-> Ctx]]
            /\ UNCHANGED resp

InMethod(t) == threads[t].pc \notin {"idle", "parsed"}

\* thread t makes the next access of its method; at the end of the method
\* the guard is dropped, during a panic too, which poisons the Mutex
Execute(t) ==
    LET s == Step(threads[t].pc, threads[t].req, Ctx)
    IN  /\ InMethod(t)
        /\ scanner' = s.ctx.scanner
        /\ value_type' = s.ctx.value_type
        /\ signed' = s.ctx.signed
        /\ child' = s.ctx.child
        /\ UNCHANGED <<env, iter, win>>
        /\ IF s.pc = "return"
           THEN /\ resp' = s.resp
                /\ lock' = 0
                /\ poisoned' = (poisoned \/ s.resp.status = "panic")
                /\ threads' = [threads EXCEPT ![t] = Idle]
           ELSE /\ threads' = [threads EXCEPT ![t].pc = s.pc]
                /\ UNCHANGED <<resp, lock, poisoned>>

ConcNext ==
    \/ \E t \in Threads, req \in Requests : Receive(t, req)
    \/ \E t \in Threads : Lock(t)
    \/ \E t \in Threads : Execute(t)

ConcSpec == ConcInit /\ [][ConcNext]_vars

(* ---------------------------------------------------------------------- *)
(* The region enumerator of the Linux backend driven by itself:            *)
(* MemoryRegionIterator::new(process, offset, limit), then next() until    *)
(* it returns None                                                         *)
(* ---------------------------------------------------------------------- *)
LinePerms == {"r-", "rw", "--"}
LineInfos == {"[heap]", "/usr/bin/target", "/lib/libc.so"}
\* the maps files read: one line per page, ascending
LineSeqs ==
    { [k \in 1 .. NumPages |->
          [start |-> (k - 1) * PageSize, end |-> k * PageSize,
           perm |-> pf[k][1], info |-> pf[k][2]]] :
      pf \in [1 .. NumPages -> LinePerms \X LineInfos] }
IterOffsets == {0, PageSize}
IterLimits == {PageSize, UsizeMax}

IterInit ==
    /\ mem = [p \in LivePids |-> InitImage(p)]
    /\ noaccess = [p \in LivePids |-> {}]
    /\ scanner = NoScanner
    /\ value_type = NoneType
    /\ signed = NoneBool
    /\ child = NoChild
    /\ poisoned = FALSE
    /\ resp = Ok("init", NoArg, <<>>)
    /\ lock = 0
    /\ threads = [t \in Threads |-> Idle]
    /\ win = NoWin
    /\ iter \in { [state |-> "running", pid |-> 1, lines |-> ls, offset |-> o,
                   limit |-> l, build |-> b, i |-> 1, out |-> <<>>] :
                  ls \in LineSeqs, o \in IterOffsets, l \in IterLimits, b \in Builds }

\* one call of next()
IterNext ==
    LET n == MemoryRegionIterator_next(iter.pid, iter.lines, iter.i, iter.offset,
                                       iter.limit, iter.build)
    IN  /\ iter.state = "running"
        /\ iter' = [iter EXCEPT !.i = n.i,
                                !.out = IF n.tag = "some" THEN Append(@, n.region) ELSE @,
                                !.state = IF n.tag = "some" THEN "running"
                                          ELSE IF n.tag = "none" THEN "done"
                                          ELSE "panicked"]
        /\ UNCHANGED <<env, session, poisoned, resp, conc, win>>

IterSpec == IterInit /\ [][IterNext]_vars

(* ---------------------------------------------------------------------- *)
(* The Process of the Linux backend driven by itself: read_memory_slice    *)
(* and write_memory_slice of one dword                                     *)
(* ---------------------------------------------------------------------- *)
\* the addresses transferred at: inside the first page, across the end of the
\* first page, inside the second page
BackendAddrs == {0, PageSize - 2, PageSize}

BackendInit ==
    /\ mem = [p \in LivePids |-> InitImage(p)]
    /\ noaccess = [p \in LivePids |-> {}]
    /\ scanner = NoScanner
    /\ value_type = NoneType
    /\ signed = NoneBool
    /\ child = NoChild
    /\ poisoned = FALSE
    /\ resp = Ok("init", NoArg, <<>>)
    /\ lock = 0
    /\ threads = [t \in Threads |-> Idle]
    /\ iter = NoIter
    /\ win = NoWin

\* Process::read_memory_slice into a zeroed buffer of one dword
Read(pid, a) ==
    LET r == read_memory_slice(pid, a, Zeros(SizeOfDword))
    IN  /\ resp' = [op |-> "read", status |-> IF r.ok THEN "ok" ELSE "err", why |-> "",
                    arg |-> [pid |-> pid, address |-> a], ret |-> r.buf]
        /\ UNCHANGED <<env, session, poisoned, conc, iter, win>>

BackendNext ==
    \/ \E pid \in PidSet, a \in BackendAddrs : Read(pid, a)
    \/ \E pid \in WritePids, a \in BackendAddrs, v \in WriteVals : Write(pid, a, v)
    \/ \E pid \in WritePids, pg \in ProtectPages : Protect(pid, pg)

BackendSpec == BackendInit /\ [][BackendNext]_vars

(* ---------------------------------------------------------------------- *)
(* The scan engine over an enumerator that yields regions of any length    *)
(* ---------------------------------------------------------------------- *)
\* the lengths of the regions: empty, shorter than a dword, longer
RegionLens == {0, SizeOfDword - 2, SizeOfDword + 1}
NumRegions == 2
\* the regions laid end to end from address 0, all readable
RECURSIVE SumTo(_, _)
SumTo(lens, k) == IF k = 0 THEN 0 ELSE SumTo(lens, k - 1) + lens[k]
RegionsOf(lens) ==
    [k \in 1 .. Len(lens) |->
        [start |-> SumTo(lens, k - 1), end |-> SumTo(lens, k),
         permission |-> "READWRITE", kind |-> "HEAP"]]
RegionSeqs == {RegionsOf(lens) : lens \in [1 .. NumRegions -> RegionLens]}

ShortInit ==
    /\ mem = [p \in LivePids |-> InitImage(p)]
    /\ noaccess = [p \in LivePids |-> {}]
    /\ scanner = Scanner_new(1)
    /\ value_type = NoneType
    /\ signed = NoneBool
    /\ child = NoChild
    /\ poisoned = FALSE
    /\ resp = Ok("init", NoArg, <<>>)
    /\ lock = 0
    /\ threads = [t \in Threads |-> Idle]
    /\ win = NoWin
    /\ iter \in {[NoIter EXCEPT !.state = "regions", !.pid = 1, !.out = rs] :
                 rs \in RegionSeqs}

\* Scanner::new_scan::<i32, _, M> with M yielding the regions of iter.out.
\* The underflow of `region_buffer.len() - size_of::<T>()` panics in a build
\* with overflow checks; without them the bound wraps and the loop reads past
\* the end of the buffer, which is undefined: the bytes past the end may or
\* may not match before the read faults.
ShortScan(value, build, garbage) ==
    LET r == Scanner_new_scan_over(scanner, iter.out, "i32", value)
        arg == [T |-> "i32", value |-> value, build |-> build]
    IN  /\ resp.status \notin {"panic", "fault"}
        /\ IF r.panicked /\ r.why = "overflow" /\ build = "release"
           THEN /\ scanner' = [r.scanner EXCEPT !.addresses =
                                  IF garbage THEN Append(@, MemSize) ELSE @]
                /\ resp' = [op |-> "new_scan", status |-> "fault", why |-> "out of bounds",
                            arg |-> arg, ret |-> <<>>]
           ELSE /\ scanner' = r.scanner
                /\ resp' = IF r.panicked THEN Panic("new_scan", arg, r.why)
                           ELSE Ok("new_scan", arg,
                                   [count |-> Len(r.scanner.addresses),
                                    before |-> Len(scanner.addresses)])
        /\ UNCHANGED <<env, value_type, signed, child, poisoned, conc, iter, win>>

ShortWrite(pid, a, v) == resp.status \notin {"panic", "fault"} /\ Write(pid, a, v)

ShortNext ==
    \/ \E value \in EngineLits, build \in Builds, garbage \in BOOLEAN :
          ShortScan(value, build, garbage)
    \/ \E pid \in WritePids, a \in WriteAddrs, v \in WriteVals : ShortWrite(pid, a, v)

ShortSpec == ShortInit /\ [][ShortNext]_vars

(* ---------------------------------------------------------------------- *)
(* The single-value helpers of the Linux backend                           *)
(* ---------------------------------------------------------------------- *)
HelperTypes == {"u8", "u16"}
\* the local memory at ptr: the T value, then the bytes that happen to lie
\* behind it, as far as the helper's slice reaches
LocalBytes(T, v, n) ==
    [i \in 1 .. (SizeOf(T) * SizeOf(T)) |-> IF i <= SizeOf(T) THEN v ELSE n]
ValueBytes == {1}
HelperAddrs == {0, PageSize - 2}
NeighbourBytes == {0, 3}

\* Process::read_memory::<T>(offset, ptr): from_raw_parts_mut(ptr,
\* size_of::<T>()) is a slice of size_of::<T>() values of T, handed to
\* read_memory_slice; the local memory afterwards
read_memory(pid, T, offset, local) == read_memory_slice(pid, offset, local)

\* Process::write_memory::<T>(offset, ptr): the same slice handed to
\* write_memory_slice
write_memory(pid, T, offset, local) == write_memory_slice(pid, offset, local)

HelperRead(pid, T, offset, v, n) ==
    LET local == LocalBytes(T, v, n)
        r == read_memory(pid, T, offset, local)
    IN  /\ resp' = [op |-> "read_memory", status |-> IF r.ok THEN "ok" ELSE "err",
                    why |-> "", arg |-> [pid |-> pid, address |-> offset, T |-> T,
                                         local |-> local],
                    ret |-> r.buf]
        /\ UNCHANGED <<env, session, poisoned, conc, iter, win>>

HelperWrite(pid, T, offset, v, n) ==
    LET local == LocalBytes(T, v, n)
        r == write_memory(pid, T, offset, local)
    IN  /\ mem' = r.mem
        /\ resp' = [op |-> "write_memory", status |-> IF r.ok THEN "ok" ELSE "err",
                    why |-> "", arg |-> [pid |-> pid, address |-> offset, T |-> T,
                                         local |-> local],
                    ret |-> <<>>]
        /\ UNCHANGED <<noaccess, session, poisoned, conc, iter, win>>

HelperNext ==
    \/ \E pid \in WritePids, T \in HelperTypes, a \in HelperAddrs,
          v \in ValueBytes, n \in NeighbourBytes : HelperRead(pid, T, a, v, n)
    \/ \E pid \in WritePids, T \in HelperTypes, a \in HelperAddrs,
          v \in ValueBytes, n \in NeighbourBytes : HelperWrite(pid, T, a, v, n)

HelperSpec == BackendInit /\ [][HelperNext]_vars

(* ---------------------------------------------------------------------- *)
(* The older Linux backend (linux_core): /proc/<pid>/mem                   *)
(* ---------------------------------------------------------------------- *)
CoreInit == BackendInit

\* preadv on /proc/<pid>/mem: the count of bytes read, which stops at the
\* first page that faults, or -1 when nothing could be read
preadv(pid, start, buf) ==
    LET n == Transferred(pid, start, Len(buf))
    IN  IF Len(buf) > 0 /\ n = 0
        THEN [result |-> -1, buf |-> buf]
        ELSE [result |-> n,
              buf |-> [i \in 1 .. Len(buf) |->
                          IF i <= n THEN mem[pid][start + i - 1] ELSE buf[i]]]

\* linux_core Process::read_process_memory: File::open(..).unwrap() panics
\* when the process is gone, then `if result < 0 { Ok(result) } else
\* { Err(result) }`
read_process_memory(pid, start, buf) ==
    IF pid \notin LivePids THEN [tag |-> "panic", result |-> 0, buf |-> buf]
    ELSE LET r == preadv(pid, start, buf)
         IN  [tag |-> IF r.result < 0 THEN "ok" ELSE "err",
              result |-> r.result, buf |-> r.buf]

\* linux_core Process::write_process_memory: Err((start + buffer.len()) as
\* i64), nothing is written; len is the count of elements of the slice
write_process_memory(pid, start, len) == [tag |-> "err", value |-> start + len, mem |-> mem]

\* read_process_memory into a zeroed buffer of one dword
CoreRead(pid, a) ==
    LET r == read_process_memory(pid, a, Zeros(SizeOfDword))
    IN  /\ resp' = [op |-> "core_read", status |-> r.tag, why |-> "",
                    arg |-> [pid |-> pid, address |-> a],
                    ret |-> [result |-> r.result, buf |-> r.buf]]
        /\ UNCHANGED <<env, session, poisoned, conc, iter, win>>

\* write_process_memory(a, &[v]) with v an i32, as set_value calls it
CoreWrite(pid, a, v) ==
    LET r == write_process_memory(pid, a, 1)
    IN  /\ mem' = r.mem
        /\ resp' = [op |-> "core_write", status |-> r.tag, why |-> "",
                    arg |-> [pid |-> pid, address |-> a, value |-> v],
                    ret |-> [err |-> r.value]]
        /\ UNCHANGED <<noaccess, session, poisoned, conc, iter, win>>

CoreNext ==
    \/ \E pid \in PidSet, a \in BackendAddrs : CoreRead(pid, a)
    \/ \E pid \in WritePids, a \in BackendAddrs, v \in WriteVals : CoreWrite(pid, a, v)
    \/ \E pid \in WritePids, a \in BackendAddrs, v \in WriteVals : Write(pid, a, v)
    \/ \E pid \in WritePids, pg \in ProtectPages : Protect(pid, pg)

CoreSpec == CoreInit /\ [][CoreNext]_vars

\* linux_core MemoryRegionIterator::next from line i on: lines below
\* starting_address are passed over, a line is returned when its pathname
\* contains every one of the three patterns
RECURSIVE CoreMemoryRegionIterator_next(_, _, _, _)
CoreMemoryRegionIterator_next(pid, lines, i, starting_address) ==
    IF i > Len(lines) THEN [tag |-> "none", i |-> i, region |-> NoRegion]
    ELSE LET line == lines[i]
         IN  IF line.start >= starting_address
             THEN IF ~ name(pid).some
                  THEN [tag |-> "panic", i |-> i + 1, region |-> NoRegion]
                  ELSE IF \A pat \in {"stack", "heap", name(pid).v} :
                              Contains(line.info, pat)
                  THEN [tag |-> "some", i |-> i + 1,
                        region |-> [start |-> line.start, end |-> line.end,
                                    permission |-> Permission(line.perm), kind |-> ""]]
                  ELSE CoreMemoryRegionIterator_next(pid, lines, i + 1, starting_address)
             ELSE CoreMemoryRegionIterator_next(pid, lines, i + 1, starting_address)

CoreLineInfos == {"[heap]", "/usr/bin/target", "/stack/heap/target", "/lib/libc.so"}
CoreLineSeqs ==
    { [k \in 1 .. NumPages |->
          [start |-> (k - 1) * PageSize, end |-> k * PageSize,
           perm |-> "rw", info |-> f[k]]] :
      f \in [1 .. NumPages -> CoreLineInfos] }

CoreIterInit ==
    /\ mem = [p \in LivePids |-> InitImage(p)]
    /\ noaccess = [p \in LivePids |-> {}]
    /\ scanner = NoScanner
    /\ value_type = NoneType
    /\ signed = NoneBool
    /\ child = NoChild
    /\ poisoned = FALSE
    /\ resp = Ok("init", NoArg, <<>>)
    /\ lock = 0
    /\ threads = [t \in Threads |-> Idle]
    /\ win = NoWin
    /\ iter \in { [state |-> "running", pid |-> 1, lines |-> ls, offset |-> o,
                   limit |-> UsizeMax, build |-> "", i |-> 1, out |-> <<>>] :
                  ls \in CoreLineSeqs, o \in IterOffsets }

\* one call of next()
CoreIterNext ==
    LET n == CoreMemoryRegionIterator_next(iter.pid, iter.lines, iter.i, iter.offset)
    IN  /\ iter.state = "running"
        /\ iter' = [iter EXCEPT !.i = n.i,
                                !.out = IF n.tag = "some" THEN Append(@, n.region) ELSE @,
                                !.state = IF n.tag = "some" THEN "running"
                                          ELSE IF n.tag = "none" THEN "done"
                                          ELSE "panicked"]
        /\ UNCHANGED <<env, session, poisoned, resp, conc, win>>

CoreIterSpec == CoreIterInit /\ [][CoreIterNext]_vars

(* ---------------------------------------------------------------------- *)
(* The Windows backend (windows_core) and the Handle of the first scanner  *)
(* (src/main.rs): the values that own an OS handle, and ModuleIterator     *)
(* ---------------------------------------------------------------------- *)
\* the handles the OS hands out before it runs out of them
MaxHandles == 3
WinPids == {1}
\* the modules of a process in the order of its module snapshot: the
\* executable first
Modules == <<"target.exe", "ntdll.dll">>
\* what Module32NextW answers on a snapshot Module32FirstW was never called
\* on, which the ToolHelp documentation leaves open: the number of the module
\* returned, or 0 when it returns FALSE
NextOnFreshSnapshot == 0 .. Len(Modules)

WinResp(op, status, why, ret) ==
    [op |-> op, status |-> status, why |-> why, arg |-> NoArg, ret |-> ret]

WinInit ==
    /\ mem = [p \in LivePids |-> InitImage(p)]
    /\ noaccess = [p \in LivePids |-> {}]
    /\ scanner = NoScanner
    /\ value_type = NoneType
    /\ signed = NoneBool
    /\ child = NoChild
    /\ poisoned = FALSE
    /\ resp = Ok("init", NoArg, <<>>)
    /\ lock = 0
    /\ threads = [t \in Threads |-> Idle]
    /\ iter = NoIter
    /\ win = NoWin

WinFrame == UNCHANGED <<env, session, poisoned, conc, iter>>

\* CreateToolhelp32Snapshot / OpenProcess succeeding: a new handle is open
OpenHandle(w) == [w EXCEPT !.opened = @ + 1, !.open = @ \cup {w.opened + 1}]
\* CloseHandle(h); h = 0 stands for INVALID_HANDLE_VALUE
CloseHandle(w, h) ==
    IF h \in w.open THEN [w EXCEPT !.open = @ \ {h}]
    ELSE [w EXCEPT !.faults = @ \cup {IF h = 0 THEN "closed invalid" ELSE "closed twice"}]
Owner(kind, h, pid) == [kind |-> kind, handle |-> h, pid |-> pid]

\* windows_core ProcessIterator::new
ProcessIterator_new(ok) ==
    /\ win.opened < MaxHandles
    /\ WinFrame
    /\ IF ok
       THEN /\ win' = [OpenHandle(win) EXCEPT
                          !.values = @ \cup {Owner("ProcessIterator", win.opened + 1, 0)}]
            /\ resp' = WinResp("ProcessIterator::new", "ok", "", <<>>)
       ELSE /\ resp' = WinResp("ProcessIterator::new", "panic",
                               "CreateToolhelp32Snapshot failed", <<>>)
            /\ UNCHANGED win

\* windows_core Process::new
Process_new(pid, ok) ==
    /\ win.opened < MaxHandles
    /\ WinFrame
    /\ IF ok
       THEN /\ win' = [OpenHandle(win) EXCEPT
                          !.values = @ \cup {Owner("Process", win.opened + 1, pid)}]
            /\ resp' = WinResp("Process::new", "ok", "", <<>>)
       ELSE /\ resp' = WinResp("Process::new", "panic", "OpenProcess failed", <<>>)
            /\ UNCHANGED win

\* ModuleIterator::new: the iterator over a snapshot that was just taken
ModuleIterator_new == [first |-> FALSE]

\* ModuleIterator::next, first call: the ToolHelp function called and the
\* number of the module returned, 0 for None
ModuleIterator_next(it, fresh) ==
    IF it.first THEN [api |-> "Module32FirstW", module |-> 1]
    ELSE [api |-> "Module32NextW", module |-> fresh]

\* windows_core Process::module, as called by id() and name():
\* ModuleIterator::new(self.pid).next().unwrap(); the iterator is a temporary
\* and ModuleIterator has no Drop
Process_module(v, ok, fresh) ==
    LET n == ModuleIterator_next(ModuleIterator_new, fresh)
    IN  /\ v \in win.values
        /\ v.kind = "Process"
        /\ win.opened < MaxHandles
        /\ WinFrame
        /\ IF ~ ok
           THEN /\ resp' = WinResp("module", "panic", "CreateToolhelp32Snapshot failed", <<>>)
                /\ UNCHANGED win
           ELSE /\ win' = OpenHandle(win)
                /\ resp' = IF n.module = 0
                           THEN WinResp("module", "panic", "unwrap",
                                        [api |-> n.api, module |-> 0, pid |-> v.pid])
                           ELSE WinResp("module", "ok", "",
                                        [api |-> n.api, module |-> n.module, pid |-> v.pid])

\* src/main.rs ProcessEnumerator::new: the snapshot is wrapped in a Handle
\* before it is tested, and the panic drops the Handle
ProcessEnumerator_new(ok) ==
    /\ win.opened < MaxHandles
    /\ WinFrame
    /\ IF ok
       THEN /\ win' = [OpenHandle(win) EXCEPT
                          !.values = @ \cup {Owner("ProcessEnumerator", win.opened + 1, 0)}]
            /\ resp' = WinResp("ProcessEnumerator::new", "ok", "", <<>>)
       ELSE /\ win' = CloseHandle(win, 0)
            /\ resp' = WinResp("ProcessEnumerator::new", "panic",
                               "CreateToolhelp32Snapshot failed", <<>>)

\* the owning value v goes out of scope: Drop for Process and Drop for Handle
\* call CloseHandle, ProcessIterator has no Drop
DropValue(v) ==
    /\ v \in win.values
    /\ WinFrame
    /\ win' = [(IF v.kind \in {"Process", "ProcessEnumerator"}
                THEN CloseHandle(win, v.handle) ELSE win)
               EXCEPT !.values = @ \ {v}]
    /\ resp' = WinResp("drop", "ok", "", [kind |-> v.kind])

WinNext ==
    \/ \E ok \in BOOLEAN : ProcessIterator_new(ok)
    \/ \E pid \in WinPids, ok \in BOOLEAN : Process_new(pid, ok)
    \/ \E v \in win.values, ok \in BOOLEAN, fresh \in NextOnFreshSnapshot :
          Process_module(v, ok, fresh)
    \/ \E ok \in BOOLEAN : ProcessEnumerator_new(ok)
    \/ \E v \in win.values : DropValue(v)

WinSpec == WinInit /\ [][WinNext]_vars

(* ---------------------------------------------------------------------- *)
(* Properties                                                              *)
(* ---------------------------------------------------------------------- *)
Range(seq) == {seq[i] : i \in 1 .. Len(seq)}
MinNat(a, b) == IF a < b THEN a ELSE b
MaxNat(a, b) == IF a > b THEN a ELSE b
ScanOps == {"new_scan", "next_scan"}
BytesAt(pid, a, size) == [i \in 1 .. size |-> mem[pid][a + i - 1]]

\* C1: a next_scan never adds an address: the candidate set after it is a
\* subset of the candidate set before it.
C1_NextScanMonotone ==
    [][resp'.op = "next_scan" =>
          Range(scanner'.addresses) \subseteq Range(scanner.addresses)]_vars

\* a next_scan has narrowed a larger candidate set down to one address
C1_Witness ==
    /\ resp.op = "next_scan"
    /\ resp.status = "ok"
    /\ resp.ret.count >= 1
    /\ resp.ret.count < resp.ret.before

\* the offsets of region the claim C2 speaks of: 0 <= off <= |R| - sizeof(T)
C2_Covered(pid, a, size) ==
    \E i \in 1 .. Len(AllRegions(pid)) :
        LET region == AllRegions(pid)[i]
        IN  /\ read_memory_slice(pid, region.start,
                                 Zeros(region.end - region.start)).ok
            /\ region.start <= a
            /\ a - region.start <= (region.end - region.start) - size

\* C2: after new_scan(== V) every offset 0 <= off <= |R| - sizeof(T) of
\* every region whose read succeeds is in the candidate set exactly when the
\* value stored there equals V, the last offset included.
C2_EveryOffsetTested ==
    (resp.op = "new_scan" /\ resp.status = "ok" /\ is_i64(resp.arg.value))
    => \A a \in Addr :
          C2_Covered(scanner.process, a, SizeOfDword)
          => (a \in Range(scanner.addresses)
              <=> AsI32(BytesAt(scanner.process, a, SizeOfDword)) = resp.arg.value.v)

\* C3: a next_scan whose kind differs from the kind stored by new_scan is
\* rejected with a scan-type-mismatch error and the candidate set is unchanged.
C3_TypeMismatchRejected ==
    [][(/\ ~ poisoned
        /\ scanner.some
        /\ value_type # NoneType
        /\ resp'.op = "next_scan"
        /\ resp'.arg.type # value_type)
       => (/\ resp'.status = "error"
           /\ resp'.why = "scan type mismatch"
           /\ scanner'.addresses = scanner.addresses)]_vars

\* C4: new_scan, next_scan or scan_result on a session without a selected
\* target returns an error response, changes no session state, and leaves the
\* session able to serve a later select_process.
C4_NoTargetIsAnError ==
    [][(/\ ~ poisoned
        /\ ~ scanner.some
        /\ resp'.op \in ScanOps \cup {"scan_result"})
       => (/\ resp'.status = "error"
           /\ UNCHANGED session
           /\ ~ poisoned')]_vars

\* C5: a scan of an unsupported type is served or answered with an
\* "unsupported" error value; it never panics.
C5_UnsupportedNeverPanics ==
    ~ (resp.status = "panic" /\ resp.why = "not supported")

\* a literal that fits neither the signed nor the unsigned dword
OutOfRange(value) == value.k = "int" /\ (value.v < I32Min \/ value.v > U32Max)

\* C6: a new_scan or next_scan whose literal does not fit the declared type,
\* issued on a non-empty candidate set, is not served and leaves the candidate
\* set exactly as it was.
C6_OutOfRangeKeepsCandidates ==
    [][(/\ ~ poisoned
        /\ scanner.some
        /\ resp'.op \in ScanOps
        /\ scanner.addresses # <<>>
        /\ resp'.arg.type = "dword"
        /\ OutOfRange(resp'.arg.value))
       => (/\ resp'.status # "ok"
           /\ scanner'.addresses = scanner.addresses)]_vars

\* C7: a successful select_process leaves a fresh engine with an empty
\* candidate set and no remembered kind or signedness.
C7_SelectClearsType ==
    (resp.op = "select_process" /\ resp.status = "ok")
    => (/\ scanner.some
        /\ scanner.addresses = <<>>
        /\ scanner.value_size = 0
        /\ value_type = NoneType
        /\ signed = NoneBool)

\* C8: a select_process that fails leaves the engine, the remembered kind and
\* signedness and the spawned child exactly as they were.
C8_FailedSelectKeepsSession ==
    [][(resp'.op = "select_process" /\ resp'.status # "ok")
       => UNCHANGED session]_vars

\* the session is in state Scanned with a signed dword scan
ScannedDword ==
    /\ ~ poisoned
    /\ scanner.some
    /\ scanner.value_size = SizeOfDword
    /\ value_type = "dword"
    /\ signed = "true"

\* C9: scan_result(offset, limit) over n candidates returns exactly
\* min(limit, max(0, n - offset)) entries, the i-th with the address of
\* element offset + i of the candidate set (stated where the window lies
\* inside the candidate set, as in n = 10, offset 3, limit 4).
C9_Pagination ==
    [][(/\ ScannedDword
        /\ resp'.op = "scan_result"
        /\ resp'.arg.limit >= 1
        /\ Len(scanner.addresses) > resp'.arg.offset + resp'.arg.limit)
       => (/\ resp'.status = "ok"
           /\ Len(resp'.ret) = MinNat(resp'.arg.limit,
                                      MaxNat(0, Len(scanner.addresses) - resp'.arg.offset))
           /\ \A i \in 1 .. Len(resp'.ret) :
                 resp'.ret[i].address = scanner.addresses[resp'.arg.offset + i])]_vars

\* C10: after new_scan<T>, scan_result<T> with the same T over a singleton
\* candidate set {A} that can be read is accepted and reports the value now
\* stored at A.
C10_ScanResultAccepted ==
    [][(/\ ScannedDword
        /\ resp'.op = "scan_result"
        /\ resp'.arg.offset = 0
        /\ resp'.arg.limit >= 1
        /\ Len(scanner.addresses) = 1
        /\ \A i \in 1 .. Len(scanner.addresses) :
              \A k \in 0 .. (SizeOfDword - 1) :
                 Accessible(scanner.process, scanner.addresses[i] + k))
       => (/\ resp'.status = "ok"
           /\ Len(resp'.ret) = 1
           /\ \A i \in 1 .. Len(resp'.ret) :
                 resp'.ret[i].value =
                    AsI32(BytesAt(scanner.process, resp'.ret[i].address, SizeOfDword)))]_vars

\* C11: a scan_result during which the re-read of a candidate fails returns
\* an error for that call and leaves the candidate set as it was; it does
\* not panic.
C11_RereadFailureIsAnError ==
    [][(/\ resp'.op = "scan_result"
        /\ ScanResultAssert(SizeOf(resp'.arg.T), scanner.value_size)
        /\ \E i \in 1 .. Len(scanner.addresses) :
              ~ read_memory_slice(scanner.process, scanner.addresses[i],
                                  Zeros(SizeOf(resp'.arg.T))).ok)
       => (/\ resp'.status = "error"
           /\ scanner' = scanner)]_vars

\* C12: a new_scan whose literal is a non-negative integer is scanned as the
\* unsigned type and stores signed = false; any other literal is scanned as
\* the signed type and stores signed = true.
C12_SignFromLiteral ==
    (resp.op = "new_scan" /\ resp.status = "ok")
    => signed = (IF resp.arg.value.k = "int" /\ resp.arg.value.v >= 0
                 THEN "false" ELSE "true")

\* C13: once a new_scan has stored the kind and the signedness, no next_scan
\* and no scan_result, served or not, changes either of them.
C13_FirstScanFixesType ==
    [][(/\ value_type # NoneType
        /\ resp'.op \in {"next_scan", "scan_result"})
       => (value_type' = value_type /\ signed' = signed)]_vars

\* the regions new_scan walks
Regions(pid) == AllRegions(pid)
\* the bulk read of the region fails
ReadFails(pid, region) ==
    ~ read_memory_slice(pid, region.start, Zeros(region.end - region.start)).ok
\* a literal on which the predicate of a dword scan does not panic
Fits(value) == is_i64(value) /\ i32_try_from(as_i64(value).v).some
\* a new_scan of a selected target with a literal that fits is being served
\* while some region of the target refuses its bulk read
NewScanOverFailingRegion ==
    /\ ~ poisoned
    /\ scanner.some
    /\ resp'.op = "new_scan"
    /\ resp'.arg.type = "dword"
    /\ Fits(resp'.arg.value)
    /\ \E i \in 1 .. Len(Regions(scanner.process)) :
          ReadFails(scanner.process, Regions(scanner.process)[i])

\* C14: a region whose bulk read fails during new_scan is skipped: new_scan
\* completes with a count, no address of that region is a candidate, and in
\* every region that can be read every offset the scan tests is a candidate
\* exactly when the value stored there equals the literal.
C14_FailingRegionSkipped ==
    [][NewScanOverFailingRegion
       => (/\ resp'.status = "ok"
           /\ resp'.ret.count = Len(scanner'.addresses)
           /\ \A i \in 1 .. Len(Regions(scanner.process)) :
                 LET region == Regions(scanner.process)[i]
                 IN  IF ReadFails(scanner.process, region)
                     THEN \A a \in Range(scanner'.addresses) :
                             a < region.start \/ a >= region.end
                     ELSE \A a \in region.start ..
                                   (region.end - SizeOfDword - 1) :
                             a \in Range(scanner'.addresses)
                             <=> AsI32(BytesAt(scanner.process, a, SizeOfDword))
                                 = resp'.arg.value.v)]_vars

\* a new_scan has found candidates in the region before and in the region
\* after one that refused its bulk read
C14_Witness ==
    /\ resp.op = "new_scan"
    /\ resp.status = "ok"
    /\ \E i \in 2 .. (Len(Regions(scanner.process)) - 1) :
          /\ ReadFails(scanner.process, Regions(scanner.process)[i])
          /\ \E a \in Range(scanner.addresses) :
                a < Regions(scanner.process)[i].start
          /\ \E a \in Range(scanner.addresses) :
                a >= Regions(scanner.process)[i].end

\* the read of one dword at address a fails
DwordReadFails(pid, a) == ~ read_memory_slice(pid, a, Zeros(SizeOfDword)).ok
\* every byte of the dword at address a can be read
DwordReadable(pid, a) ==
    \A k \in 0 .. (SizeOfDword - 1) : Accessible(pid, a + k)

\* C15: an address whose read fails during next_scan is dropped from the
\* candidate set, every other address stays exactly when the value stored
\* there equals the literal, and the next_scan itself succeeds.
C15_FailingAddressDropped ==
    [][(/\ ~ poisoned
        /\ scanner.some
        /\ NextScanAssert(SizeOfDword, scanner.value_size)
        /\ resp'.op = "next_scan"
        /\ resp'.arg.type = "dword"
        /\ Fits(resp'.arg.value)
        /\ \E a \in Range(scanner.addresses) : DwordReadFails(scanner.process, a))
       => (/\ resp'.status = "ok"
           /\ resp'.ret.count = Len(scanner'.addresses)
           /\ \A a \in Range(scanner.addresses) :
                 /\ DwordReadFails(scanner.process, a)
                    => a \notin Range(scanner'.addresses)
                 /\ DwordReadable(scanner.process, a)
                    => (a \in Range(scanner'.addresses)
                        <=> AsI32(BytesAt(scanner.process, a, SizeOfDword))
                            = resp'.arg.value.v))]_vars

\* a next_scan(== 0) over a target whose bytes are all 0 has dropped some
\* candidates and kept others: the dropped ones are those whose read failed
C15_Witness ==
    /\ resp.op = "next_scan"
    /\ resp.status = "ok"
    /\ resp.arg.value = IntLit(0)
    /\ \A a \in Addr : mem[scanner.process][a] = 0
    /\ noaccess[scanner.process] # {}
    /\ resp.ret.count >= 1
    /\ resp.ret.count < resp.ret.before

\* C16: the handlers of concurrent requests never interleave on the session:
\* a thread is inside the controller's method only while it holds the Mutex,
\* only that thread changes the session, and when its method ends the session
\* and the response are those of the request served alone on the session the
\* thread found when it took the Mutex, so every outcome is that of the
\* requests served one after another in the order the Mutex was taken.
C16_Serialized ==
    [][/\ \A t \in Threads : InMethod(t) => lock = t
       /\ Ctx' # Ctx => \E t \in Threads : /\ lock = t
                                            /\ InMethod(t)
                                            /\ \A u \in Threads \ {t} :
                                                  threads'[u] = threads[u]
       /\ \A t \in Threads :
             (InMethod(t) /\ threads'[t].pc = "idle")
             => (/\ Ctx' = Serial(threads[t].req, threads[t].snap).ctx
                 /\ resp' = Serial(threads[t].req, threads[t].snap).resp)]_vars

\* a new_scan holds the Mutex between its writes to the session (the engine
\* has scanned, the kind is not stored yet) while a select_process waits
C16_Witness ==
    \E t \in Threads, u \in Threads :
        /\ lock = t
        /\ threads[t].req.op = "new_scan"
        /\ threads[t].pc = "scan_type"
        /\ scanner.value_size = SizeOfDword
        /\ value_type = NoneType
        /\ threads[u].pc = "parsed"
        /\ threads[u].req.op = "select_process"

\* the line passes the kind filter of the enumerator
Qualifies(line) ==
    \/ Contains(line.info, "stack")
    \/ Contains(line.info, "heap")
    \/ Contains(line.info, TargetName)

\* the starts of the qualifying lines, from line i on, that lie in
\* [offset, offset + limit)
RECURSIVE WindowStarts(_, _, _, _)
WindowStarts(lines, i, offset, limit) ==
    IF i > Len(lines) THEN <<>>
    ELSE (IF /\ Qualifies(lines[i])
             /\ lines[i].start >= offset
             /\ lines[i].start - offset < limit
          THEN <<lines[i].start>> ELSE <<>>)
         \o WindowStarts(lines, i + 1, offset, limit)

\* C17: the enumerator built with (process, start, limit) runs to its end and
\* has then emitted exactly the qualifying lines whose start lies in
\* [start, start + limit), in ascending order: lines below start are skipped,
\* lines at or past start + limit are not emitted.
C17_EmitsWindow ==
    iter.state \in {"done", "panicked"}
    => (/\ iter.state = "done"
        /\ [k \in 1 .. Len(iter.out) |-> iter.out[k].start]
           = WindowStarts(iter.lines, 1, iter.offset, iter.limit))

\* C18: the enumerator never emits a region whose permission is none.
C18_NeverEmitsNone ==
    \A k \in 1 .. Len(iter.out) : iter.out[k].permission # "NONE"

\* C19: read_memory_slice and write_memory_slice are all-or-nothing: a call
\* that returns Ok has transferred every byte of the buffer, and a transfer
\* of fewer bytes is reported as Err.
C19_AllOrNothing ==
    [][(resp'.op \in {"read", "write"} /\ resp'.status = "ok")
       => Transferred(resp'.arg.pid, resp'.arg.address, SizeOfDword)
          = SizeOfDword]_vars

\* C20: after any sequence of new_scan and next_scan the candidate addresses
\* are strictly ascending, so no address occurs twice.
C20_StrictlyAscending ==
    \A i \in 1 .. Len(scanner.addresses), j \in 1 .. Len(scanner.addresses) :
        i < j => scanner.addresses[i] < scanner.addresses[j]

\* a next_scan has narrowed a candidate set and left candidates both in the
\* heap and in the stack region
C20_Witness ==
    /\ resp.op = "next_scan"
    /\ resp.status = "ok"
    /\ resp.ret.count < resp.ret.before
    /\ Len(scanner.addresses) >= 3
    /\ scanner.addresses[1] < (NumPages - 1) * PageSize
    /\ scanner.addresses[Len(scanner.addresses)] >= (NumPages - 1) * PageSize

\* C21: every handle the backend opens is closed exactly once when the value
\* that owns it is dropped: a handle still open is owned by a live value, and
\* no handle is closed twice or closed without having been validly opened.
C21_HandleHygiene ==
    /\ win.faults = {}
    /\ \A h \in win.open : \E v \in win.values : v.handle = h

\* C27: the first call to ModuleIterator::next after new goes through
\* Module32FirstW and returns the module of the executable itself, so that
\* Process::module (and with it id and name) answers from the first module of
\* the snapshot.
C27_FirstCallUsesFirst ==
    (resp.op = "module" /\ resp.why # "CreateToolhelp32Snapshot failed")
        => /\ resp.ret.api = "Module32FirstW"
           /\ resp.status = "ok"
           /\ Modules[resp.ret.module] = "target.exe"

\* C22: a write to a writable address of a live target returns Ok, and the
\* dword then held by the target at that address is the value written, which
\* is what a following read of the same width yields.
C22_WriteThenRead ==
    (/\ resp.op = "core_write"
     /\ \A i \in 0 .. (SizeOfDword - 1) :
            Accessible(resp.arg.pid, resp.arg.address + i))
        => /\ resp.status = "ok"
           /\ AsI32(read_memory_slice(resp.arg.pid, resp.arg.address,
                                      Zeros(SizeOfDword)).buf) = resp.arg.value

\* C26: linux_core read_process_memory answers Ok exactly when preadv
\* succeeded, with a count that is not negative, and Err exactly when preadv
\* failed.
C26_OkIffPreadvSucceeded ==
    (resp.op = "core_read" /\ resp.status # "panic")
        => (resp.status = "ok" <=> resp.ret.result >= 0)

\* C25: a map line at or past the start of the window is emitted when its
\* pathname contains the stack label, the heap label or the name of the
\* process, any one of the three being enough; the lines containing none of
\* them are skipped and the iteration goes on to the end of the file.
C25_AnyLabelSuffices ==
    iter.state \in {"done", "panicked"}
    => (/\ iter.state = "done"
        /\ \A k \in 1 .. Len(iter.lines) :
              (iter.lines[k].start >= iter.offset /\ Qualifies(iter.lines[k]))
              <=> (\E j \in 1 .. Len(iter.out) : iter.out[j].start = iter.lines[k].start))

\* the session is Bound: a target is selected, no new_scan has run
Bound ==
    /\ ~ poisoned
    /\ scanner.some
    /\ scanner.value_size = 0
    /\ scanner.addresses = <<>>
    /\ value_type = NoneType

\* C23: a next_scan or scan_result issued while the session is Bound is
\* refused, produces no count and no entries, and leaves the session Bound:
\* the candidate set empty, no type stored, and the session still served.
C23_BoundRefuses ==
    [][(Bound /\ resp'.op \in {"next_scan", "scan_result"})
       => (/\ resp'.status # "ok"
           /\ UNCHANGED session
           /\ ~ poisoned')]_vars

\* C28: a request that fails inside a handler does not disable the session:
\* the request that follows a failed one still acquires the session lock, it
\* is never turned away for the lock being poisoned.
C28_FailureKeepsSessionServing ==
    [][(resp.status # "ok" /\ resp.why # "PoisonError")
       => resp'.why # "PoisonError"]_vars

\* C24: new_scan replaces the candidate set: the set after a new_scan<T>(p)
\* that was served is the one the same call yields on an engine just bound to
\* the target, whatever the set was before, and the recorded element width is
\* sizeof(T).
C24_NewScanReplaces ==
    [][(resp'.op = "new_scan" /\ resp'.status = "ok")
       => (/\ scanner'.addresses
              = Scanner_new_scan(Scanner_new(scanner.process), resp'.arg.T,
                                 resp'.arg.value).scanner.addresses
           /\ scanner'.value_size = SizeOf(resp'.arg.T))]_vars

\* a new_scan was served over a candidate set that was not empty and has
\* left a set of another size, which is not empty either
C24_Witness ==
    /\ resp.op = "new_scan"
    /\ resp.status = "ok"
    /\ resp.ret.before >= 1
    /\ resp.ret.count >= 1
    /\ resp.ret.count # resp.ret.before

\* C29: a new_scan<T> over regions that can be read, one of which is shorter
\* than sizeof(T) or empty, is served: the offset bound does not underflow,
\* the short region contributes no address, and the scan goes on to the
\* regions after it.
C29_ShortRegionNoUnderflow ==
    (/\ resp.op = "new_scan"
     /\ \E k \in 1 .. Len(iter.out) :
           iter.out[k].end - iter.out[k].start < SizeOf(resp.arg.T))
    => (/\ resp.status = "ok"
        /\ \A a \in Range(scanner.addresses) :
              \E k \in 1 .. Len(iter.out) :
                 /\ iter.out[k].start <= a
                 /\ a + SizeOf(resp.arg.T) <= iter.out[k].end)

\* C30: read_memory<T> and write_memory<T> transfer exactly sizeof(T) bytes:
\* a write changes no byte of the target outside [offset, offset + sizeof(T)),
\* and a read changes no local byte behind the one T value.
C30_ExactlyOneValue ==
    [][/\ (resp'.op = "write_memory" /\ resp'.status = "ok")
          => \A a \in Addr :
                (a < resp'.arg.address \/ a >= resp'.arg.address + SizeOf(resp'.arg.T))
                => mem'[resp'.arg.pid][a] = mem[resp'.arg.pid][a]
       /\ (resp'.op = "read_memory" /\ resp'.status = "ok")
          => \A i \in (SizeOf(resp'.arg.T) + 1) .. Len(resp'.ret) :
                resp'.ret[i] = resp'.arg.local[i]]_vars

====
